---- MODULE Spec2Model ----
(***************************************************************************)
(* The event pipeline of jules-mpc: the Observer appends JSON lines to the *)
(* events file (scripts/jules_monitor.py, append_jsonl) and the event      *)
(* watcher (jules-mpc-python/scripts/jules_event_watcher.py, watch) tails  *)
(* the file from a persisted offset and runs the handler command for every *)
(* line that parses.                                                       *)
(*                                                                         *)
(* The events file is a sequence of characters.  json.dumps of an event    *)
(* payload p is the three characters "{", p, "}"; a line ends with NL.     *)
(* Offsets are character counts from the start of the file (the payloads   *)
(* are ASCII: json.dumps escapes everything else).                         *)
(*                                                                         *)
(* Spec        whole-line appends, the watcher's loop with its IOError     *)
(*             branch, kills of the watcher and restarts from the state    *)
(*             file.                                                       *)
(* SpecPartial Spec, and appends that reach the file in two pieces, so     *)
(*             that the watcher can read a partly written last line.       *)
(* SpecLive    whole-line appends and a watcher that is never killed and   *)
(*             keeps taking the steps of its loop.                         *)
(* SpecScalar  Spec, and lines that hold JSON which is no record.          *)
(*                                                                         *)
(* The Observer's side (main and monitor_once of scripts/jules_monitor.py) *)
(* is modelled on the records it appends, not on their characters: events  *)
(* is the sequence of the payloads of its append_jsonl calls.  One visit   *)
(* of a job by monitor_once is one step.  The watcher's variables do not   *)
(* change in the Observer's specifications, nor the Observer's in the      *)
(* watcher's.                                                              *)
(*                                                                         *)
(* SpecObs     the poll cycle over a jobs file that names each job once,   *)
(*             remote calls that fail with and without an HTTP status,     *)
(*             kills of the Observer and restarts from its state file.     *)
(* SpecObsDup  SpecObs, and a job registered a second time.                *)
(* SpecObsIO   SpecObs, and failing reads and writes of the Observer's     *)
(*             files.                                                      *)
(* SpecObsArray SpecObs, and a jobs file supplied as one JSON array.       *)
(*                                                                         *)
(* The MCP server (mcp-server/jules_mcp_server.py, main) reads requests    *)
(* from its standard input, one per line, and writes responses to its      *)
(* standard output.                                                        *)
(*                                                                         *)
(* SpecMcp     the server's loop over input lines of every kind.           *)
(***************************************************************************)
EXTENDS Integers, Sequences, FiniteSets, TLC

VARIABLES
    log,        \* content of the events file; <<>> while it does not exist
    pending,    \* rest of an append_jsonl call whose first part is on disk
    pc,         \* where the watcher is in watch()
    offset,     \* watch(): the local variable offset
    rpos,       \* position of the open file handle
    stateFile,  \* content of the watcher state file
    run,        \* number of the watcher process (0 is the first start)
    startOff,   \* the persisted offset the current run was started from
    calls,      \* every run_command call so far: <<[run, pos, ev, rc]>>
    hiPersist,  \* highest offset ever written to the state file
    crashes,    \* kills of the watcher so far
    errors,     \* IOErrors raised inside the try block so far
    jobsFile,   \* the jobs file: the job ids of its entries in file order,
                \* and "[" and "]" where the file holds a JSON array
    rstatus,    \* remote service: the status of each job
    rmsgs,      \* remote service: the messages of each job, oldest first
    now,        \* the clock, in ticks
    opc,        \* where the Observer is in main()
    cycle,      \* number of the poll cycle (turn of main's while loop)
    jobs,       \* main(): the job list load_jobs returned in this cycle
    idx,        \* monitor_once(): index in jobs of the entry handled next
    state,      \* main(): the in-memory table job_id -> JobState
    mstate,     \* content of the monitor state file
    events,     \* every record append_jsonl was called with, in order
    fetches,    \* every fetch_json call and failed load_jobs call so far
    faults,     \* failed remote calls, failed file operations and kills of
                \* the Observer so far
    stdinRead,  \* MCP server: the lines "for line in sys.stdin" has yielded
    request,    \* MCP server, main(): the local variable request
    stdout,     \* MCP server: the lines written to stdout, in order
    mpc         \* MCP server: where the process is

tailVars == <<log, pending, pc, offset, rpos, stateFile, run, startOff, calls,
              hiPersist, crashes, errors>>

obsVars == <<jobsFile, rstatus, rmsgs, now, opc, cycle, jobs, idx, state,
             mstate, events, fetches, faults>>

mcpVars == <<stdinRead, request, stdout, mpc>>

vars == <<tailVars, obsVars, mcpVars>>

\* ---------------------------------------------------------------- bounds
MaxLines   == 2
MaxCrashes == 1
MaxErrors  == 1
MaxCycles   == 3
MaxMsgs     == 2
MaxFaults   == 1
MaxInput    == 3

\* ------------------------------------------------------------ characters
NL == "NL"
Payloads == {"a", "b"}

\* The state file: absent, or cut to zero length by open(path, "w") and not
\* yet written, or holding {"offset": n}.
NoState   == -1
TornState == -2

\* json.dumps(payload)
Dumps(p) == <<"{", p, "}">>


\* Number of newline characters in s
NumLines(s) == Cardinality({i \in 1..Len(s) : s[i] = NL})

\* File iteration: the line that starts at position r ends after the next
\* newline, or at the end of the file when there is none.
LineEnd(s, r) ==
    IF \E i \in (r + 1)..Len(s) : s[i] = NL
    THEN CHOOSE i \in (r + 1)..Len(s) :
             /\ s[i] = NL
             /\ \A j \in (r + 1)..(i - 1) : s[j] # NL
    ELSE Len(s)

\* str.strip(): the text without leading and trailing whitespace
RECURSIVE Strip(_)
Strip(t) ==
    IF t = <<>> THEN t
    ELSE IF Head(t) = NL THEN Strip(Tail(t))
    ELSE IF t[Len(t)] = NL THEN Strip(SubSeq(t, 1, Len(t) - 1))
    ELSE t

\* json.loads gives a record (a dict) on the texts json.dumps produces from
\* the Observer's events, with or without whitespace around them.
Parseable(text) == \E p \in Payloads : Strip(text) = Dumps(p)

\* JSON texts that are no records: "5" stands for a bare number, a string, an
\* array, true, false or null.
Scalars == {"5"}

\* json.loads succeeds on the text and gives a value that is no dict.
ParsesToNonRecord(text) == \E c \in Scalars : Strip(text) = <<c>>

\* json.loads(text), for a parseable text
Loads(text) == Strip(text)[2]

\* A tailer that takes the size of the file as its new offset
Tell_FileSize(rp, s) == Len(s)

\* handle.tell() after the for loop: the position the reads have reached
Tell(rp, s) == rp

\* A watcher that starts from the beginning whatever the state file holds
LoadOffset_FromStart(sf) == 0

\* load_state and int(state.get("offset", 0))
LoadOffset(sf) == IF sf = NoState THEN 0 ELSE sf

\* run_command returns the exit code of the handler command.  The handler of
\* the model is a command that accepts the events of payload "a" (exit code 0)
\* and rejects the events of payload "b" (exit code 1).
RunCommand(ev) == IF ev = "b" THEN 1 ELSE 0

\* Length of one record of the events file: json.dumps(payload) and "\n"
RecLen == Len(Dumps("a")) + 1

\* The bound on the events file: at most MaxLines lines, begun or whole.
CanAppend ==
    /\ pending = <<>>
    /\ NumLines(log) < MaxLines
    /\ Len(log) < MaxLines * RecLen

\* os.path.exists(events_path): append_jsonl creates the file.
Exists == log # <<>>

\* The watcher process is alive.
Up == pc \notin {"down", "failed", "raised"}

\* ------------------------------------------------- the Observer: values

JobIds == {"J1", "J2"}

\* Line 44
ACTIONABLE_STATUSES == {"COMPLETED", "FAILED", "ERROR", "CANCELLED"}

\* The status of a job the remote service is still working on
Running == "RUNNING"

\* The terminal statuses the remote jobs of the model end with; line 241 tells
\* COMPLETED from the other three and treats those alike.
Endings == {"COMPLETED", "FAILED"}

\* The order in which the jobs are registered
JobOrder == <<"J1", "J2">>

\* Python's None as a status, a cursor, a timestamp and a job_id.  Cursors are
\* the tokens 1, 2, ... the service hands out and timestamps are ticks >= 1.
NoStatus   == "None"
NoCursor   == 0
NoActivity == 0
NoJob      == "None"

\* One tick of the clock is ten minutes: DEFAULT_STUCK_MINUTES = 20.
StuckTicks == 2

\* The sleep between two poll cycles takes a tick, or as long as the stuck
\* threshold.
Sleeps == {1, StuckTicks}

\* Kinds of message the service holds: "q" matches is_question_message,
\* "n" does not.
MsgKinds == {"q", "n"}

\* JobState(): the dataclass defaults, lines 181-186
JobState ==
    [known |-> TRUE, cursor |-> NoCursor, last_status |-> NoStatus,
     last_activity |-> NoActivity]

\* A job_id that is not a key of the table
Untracked == [JobState EXCEPT !.known = FALSE]

\* The table without keys
NoTable == [j \in JobIds |-> Untracked]

\* The monitor state file: absent, cut to zero length by open(path, "w"), or
\* holding the JSON object json.dump wrote, as the set of its members: one
\* [job_id, cursor, last_status, last_activity] for every key.
NoMonitorState   == [st |-> "none", tab |-> {}]
TornMonitorState == [st |-> "torn", tab |-> {}]

\* ------------------------------------------------ the MCP server: values

\* The id of a request; NoId is Python's None, the value of request.get("id")
\* for a request object without an id.
RequestIds == {"i1", "i2"}
NoId == "None"

\* What handle_request does with a request object: it sends a result
\* (initialize, tools/list, a tools/call that returns), it sends the error
\* "Unsupported method", or it raises (a tools/call whose handle_tool_call
\* raises ValueError or RuntimeError, params without a get method).
Outcomes == {"result", "unsupported", "raise"}

\* The lines of the input: a JSON object (a request, with or without id), JSON
\* text that is no object (a number, a string, an array), text that is no
\* JSON, and a line that is empty after strip().
InputLines ==
    [kind : {"object"}, id : RequestIds \cup {NoId}, does : Outcomes]
    \cup {[kind |-> k, id |-> NoId, does |-> "raise"] :
              k \in {"scalar", "garbage", "blank"}}

\* The local variable request of main() before its first assignment
Unbound == [kind |-> "unbound", id |-> NoId, does |-> "raise"]

Init ==
    /\ jobsFile = <<>>
    /\ rstatus = [j \in JobIds |-> Running]
    /\ rmsgs = [j \in JobIds |-> <<>>]
    /\ now = 1
    /\ opc = "load"
    /\ cycle = 0
    /\ jobs = <<>>
    /\ idx = 0
    /\ state = NoTable
    /\ mstate = NoMonitorState
    /\ events = <<>>
    /\ fetches = <<>>
    /\ faults = 0
    /\ stdinRead = <<>>
    /\ request = Unbound
    /\ stdout = <<>>
    /\ mpc = "run"
    /\ log = <<>>
    /\ pending = <<>>
    /\ pc = "check"
    /\ offset = LoadOffset(NoState)
    /\ rpos = 0
    /\ stateFile = NoState
    /\ run = 0
    /\ startOff = 0
    /\ calls = <<>>
    /\ hiPersist = NoState
    /\ crashes = 0
    /\ errors = 0

\* ------------------------------------------------------------ the Observer

\* A writer that opens the events file with mode "w"
OpenAppend_Truncate(s, text) == text

\* open(path, "a") and handle.write(text), lines 78-80: the text goes to the
\* end of the file, whatever the file holds.
OpenAppend(s, text) == s \o text

\* append_jsonl(path, payload), where the write reaches the file in one piece
AppendJsonl(p) ==
    /\ CanAppend
    /\ log' = OpenAppend(log, Dumps(p) \o <<NL>>)
    /\ UNCHANGED <<pending, pc, offset, rpos, stateFile, run, startOff, calls,
                   hiPersist, crashes, errors>>
    /\ UNCHANGED <<obsVars, mcpVars>>

\* An append_jsonl call that the Observer did not survive (the write buffer was
\* flushed inside the record: its first k characters are on disk) followed by
\* the call of the restarted Observer for the same event, both before the
\* watcher reads again: the file gains one line that does not parse.
AppendAfterTorn(k, q) ==
    /\ CanAppend
    /\ log' = OpenAppend(OpenAppend(log, SubSeq(Dumps(q), 1, k)),
                          Dumps(q) \o <<NL>>)
    /\ UNCHANGED <<pending, pc, offset, rpos, stateFile, run, startOff, calls,
                   hiPersist, crashes, errors>>
    /\ UNCHANGED <<obsVars, mcpVars>>

\* ------------------------------------------------------------- the watcher

\* watch(), lines 106-108: the events file does not exist yet
WaitForFile ==
    /\ pc = "check"
    /\ ~Exists
    /\ pc' = "sleep"
    /\ UNCHANGED <<log, pending, offset, rpos, stateFile, run, startOff, calls,
                   hiPersist, crashes, errors>>
    /\ UNCHANGED <<obsVars, mcpVars>>

\* time.sleep(poll) is over
Wake ==
    /\ pc = "sleep"
    /\ pc' = "check"
    /\ UNCHANGED <<log, pending, offset, rpos, stateFile, run, startOff, calls,
                   hiPersist, crashes, errors>>
    /\ UNCHANGED <<obsVars, mcpVars>>

\* open(events_path) and handle.seek(offset)
OpenSeek ==
    /\ pc = "check"
    /\ Exists
    /\ pc' = "reading"
    /\ rpos' = offset
    /\ UNCHANGED <<log, pending, offset, stateFile, run, startOff, calls,
                   hiPersist, crashes, errors>>
    /\ UNCHANGED <<obsVars, mcpVars>>

\* One turn of "for line in handle": read a line, strip it, skip it when it is
\* empty or does not parse, else run the handler command on the event.  The
\* exit code rc of the command is printed (lines 135-136) and nothing else
\* depends on it: the loop goes on with the line that follows.  On a line
\* that parses to a value without a get method, event.get (line 126) raises
\* AttributeError, which no except clause of watch catches: the process ends.
ReadLine ==
    /\ pc = "reading"
    /\ rpos < Len(log)
    /\ LET e    == LineEnd(log, rpos)
           text == Strip(SubSeq(log, rpos + 1, e))
       IN  /\ rpos' = e
           /\ IF text # <<>> /\ Parseable(text)
              THEN calls' = Append(calls, [run |-> run, pos |-> rpos,
                                           ev |-> Loads(text),
                                           rc |-> RunCommand(Loads(text))])
              ELSE calls' = calls
           /\ pc' = IF ParsesToNonRecord(text) THEN "raised" ELSE pc
    /\ UNCHANGED <<log, pending, offset, stateFile, run, startOff,
                   hiPersist, crashes, errors>>
    /\ UNCHANGED <<obsVars, mcpVars>>

\* "for line in handle" meets the end of the file and the loop ends.
ScanEnd ==
    /\ pc = "reading"
    /\ rpos >= Len(log)
    /\ pc' = "eof"
    /\ UNCHANGED <<log, pending, offset, rpos, stateFile, run, startOff, calls,
                   hiPersist, crashes, errors>>
    /\ UNCHANGED <<obsVars, mcpVars>>

\* Line 139, offset = handle.tell(), and the file is closed.
TellOffset ==
    /\ pc = "eof"
    /\ offset' = Tell(rpos, log)
    /\ rpos' = 0
    /\ pc' = "persist"
    /\ UNCHANGED <<log, pending, stateFile, run, startOff, calls,
                   hiPersist, crashes, errors>>
    /\ UNCHANGED <<obsVars, mcpVars>>

\* except IOError: open, seek, a read, the spawn of the handler command or
\* tell raised; the offset keeps its value and the loop goes on to save it.
ReadError ==
    /\ \/ pc = "check" /\ Exists
       \/ pc \in {"reading", "eof"}
    /\ errors < MaxErrors
    /\ errors' = errors + 1
    /\ rpos' = 0
    /\ pc' = "persist"
    /\ UNCHANGED <<log, pending, offset, stateFile, run, startOff, calls,
                   hiPersist, crashes>>
    /\ UNCHANGED <<obsVars, mcpVars>>

\* save_state: open(path, "w") cuts the state file to zero length
SaveTruncate ==
    /\ pc = "persist"
    /\ stateFile' = TornState
    /\ pc' = "saving"
    /\ UNCHANGED <<log, pending, offset, rpos, run, startOff, calls,
                   hiPersist, crashes, errors>>
    /\ UNCHANGED <<obsVars, mcpVars>>

\* save_state: json.dump and close put {"offset": offset} in the state file
SaveWrite ==
    /\ pc = "saving"
    /\ stateFile' = offset
    /\ hiPersist' = IF offset > hiPersist THEN offset ELSE hiPersist
    /\ pc' = "sleep"
    /\ UNCHANGED <<log, pending, offset, rpos, run, startOff, calls,
                   crashes, errors>>
    /\ UNCHANGED <<obsVars, mcpVars>>

\* The watcher process is killed.
Crash ==
    /\ Up
    /\ crashes < MaxCrashes
    /\ crashes' = crashes + 1
    /\ rpos' = 0
    /\ pc' = "down"
    /\ UNCHANGED <<log, pending, offset, stateFile, run, startOff, calls,
                   hiPersist, errors>>
    /\ UNCHANGED <<obsVars, mcpVars>>

\* The watcher is started again: load_state, lines 97-98.  json.load raises on
\* a state file of zero length and the process ends before its loop.
Restart ==
    /\ pc = "down"
    /\ IF stateFile = TornState
       THEN /\ pc' = "failed"
            /\ UNCHANGED <<offset, run, startOff>>
       ELSE /\ pc' = "check"
            /\ offset' = LoadOffset(stateFile)
            /\ startOff' = IF stateFile = NoState THEN 0 ELSE stateFile
            /\ run' = run + 1
    /\ UNCHANGED <<log, pending, rpos, stateFile, calls, hiPersist, crashes,
                   errors>>
    /\ UNCHANGED <<obsVars, mcpVars>>

Next ==
    \/ \E p \in Payloads : AppendJsonl(p)
    \/ \E q \in Payloads : \E k \in 1..(Len(Dumps(q)) - 1) :
           AppendAfterTorn(k, q)
    \/ WaitForFile
    \/ Wake
    \/ OpenSeek
    \/ ReadLine
    \/ ScanEnd
    \/ TellOffset
    \/ ReadError
    \/ SaveTruncate
    \/ SaveWrite
    \/ Crash
    \/ Restart

Spec == Init /\ [][Next]_vars

\* ------------------------------------------------- appends in two pieces

\* append_jsonl whose record reaches the file in two pieces (the record is
\* larger than the write buffer, or the process is stopped between the write of
\* the record and the write of "\n"): the first k characters are on disk.
TornWrite(p, k) ==
    /\ CanAppend
    /\ log' = OpenAppend(log, SubSeq(Dumps(p) \o <<NL>>, 1, k))
    /\ pending' = SubSeq(Dumps(p) \o <<NL>>, k + 1, RecLen)
    /\ UNCHANGED <<pc, offset, rpos, stateFile, run, startOff, calls,
                   hiPersist, crashes, errors>>
    /\ UNCHANGED <<obsVars, mcpVars>>

\* The rest of the record reaches the file.
FinishWrite ==
    /\ pending # <<>>
    /\ log' = log \o pending
    /\ pending' = <<>>
    /\ UNCHANGED <<pc, offset, rpos, stateFile, run, startOff, calls,
                   hiPersist, crashes, errors>>
    /\ UNCHANGED <<obsVars, mcpVars>>

NextPartial ==
    \/ Next
    \/ \E p \in Payloads : \E k \in 1..(RecLen - 1) : TornWrite(p, k)
    \/ FinishWrite

SpecPartial == Init /\ [][NextPartial]_vars

\* ------------------------------------------------ lines that are no records

\* The events file gains a line whose text is JSON and no record.
AppendScalar(c) ==
    /\ CanAppend
    /\ log' = OpenAppend(log, <<c, NL>>)
    /\ UNCHANGED <<pending, pc, offset, rpos, stateFile, run, startOff, calls,
                   hiPersist, crashes, errors>>
    /\ UNCHANGED <<obsVars, mcpVars>>

NextScalar ==
    \/ Next
    \/ \E c \in Scalars : AppendScalar(c)

\* Spec, and events files with lines that parse to something else than a
\* record.
SpecScalar == Init /\ [][NextScalar]_vars

\* ------------------------------------------------ the watcher keeps running

\* One step of the watcher's loop
WatchStep ==
    \/ WaitForFile
    \/ Wake
    \/ OpenSeek
    \/ ReadLine
    \/ ScanEnd
    \/ TellOffset
    \/ SaveTruncate
    \/ SaveWrite

NextLive ==
    \/ \E p \in Payloads : AppendJsonl(p)
    \/ \E q \in Payloads : \E k \in 1..(Len(Dumps(q)) - 1) :
           AppendAfterTorn(k, q)
    \/ WatchStep
    \/ ReadError

\* The watcher is never killed, its loop has no exit and every step of it ends
\* (the sleep, the reads, the handler command), so its next step is taken.
SpecLive == Init /\ [][NextLive]_vars /\ WF_vars(WatchStep)

\* ---------------------------------------------------------- the MCP server

\* request.get("id"), line 318, under isinstance(request, dict), line 317
IdOf(req) == IF req.kind = "object" THEN req.id ELSE NoId

\* write_message, lines 33-37: one line on stdout.  The record keeps the
\* number of the input line the server was handling.
WriteMessage(id, isError) ==
    stdout' = Append(stdout, [line |-> Len(stdinRead) + 1, id |-> id,
                              error |-> isError])

\* One turn of "for line in sys.stdin", lines 309-320, on the line l.  An
\* empty line is skipped.  json.loads assigns request when the line is JSON
\* and raises otherwise, leaving request as it was; handle_request sends one
\* response with request.get("id") or raises (on a value without a get
\* method it raises AttributeError).  The except branch sends an error with
\* the id of whatever request holds; while request is unbound, the test
\* isinstance(request, dict) raises UnboundLocalError inside the except
\* branch, which ends the process.
RelayLine(l) ==
    /\ mpc = "run"
    /\ Len(stdinRead) < MaxInput
    /\ stdinRead' = Append(stdinRead, l)
    /\ IF l.kind = "blank"
       THEN UNCHANGED <<request, stdout, mpc>>
       ELSE LET req == IF l.kind = "garbage" THEN request ELSE l
            IN  /\ request' = req
                /\ IF l.kind = "object" /\ l.does = "result"
                   THEN WriteMessage(l.id, FALSE) /\ mpc' = mpc
                   ELSE IF l.kind = "object" /\ l.does = "unsupported"
                   THEN WriteMessage(l.id, TRUE) /\ mpc' = mpc
                   ELSE IF req = Unbound
                   THEN stdout' = stdout /\ mpc' = "raised"
                   ELSE WriteMessage(IdOf(req), TRUE) /\ mpc' = mpc
    /\ UNCHANGED <<tailVars, obsVars>>

\* sys.stdin is at its end: the for loop ends and main returns 0.
StdinEof ==
    /\ mpc = "run"
    /\ mpc' = "done"
    /\ UNCHANGED <<stdinRead, request, stdout>>
    /\ UNCHANGED <<tailVars, obsVars>>

NextMcp ==
    \/ \E l \in InputLines : RelayLine(l)
    \/ StdinEof

\* The MCP server reads its input line by line.
SpecMcp == Init /\ [][NextMcp]_vars

\* ------------------------------------------------------------ properties

\* Positions at which a line of s starts
LineStarts(s) == {p \in 0..(Len(s) - 1) : p = 0 \/ s[p] = NL}

\* The line that starts at p is terminated by a newline.
Complete(s, p) == \E i \in (p + 1)..Len(s) : s[i] = NL

LineText(s, p) == SubSeq(s, p + 1, LineEnd(s, p))

\* Starts of the complete lines that hold an event
EventLines(s) ==
    {p \in LineStarts(s) : Complete(s, p) /\ Parseable(LineText(s, p))}

\* Starts of the complete, non-empty lines that do not parse
MalformedLines(s) ==
    {p \in LineStarts(s) : /\ Complete(s, p)
                           /\ Strip(LineText(s, p)) # <<>>
                           /\ ~Parseable(LineText(s, p))}

\* The handler calls of run r for the line that starts at p
CallsAt(r, p) == {i \in DOMAIN calls : calls[i].run = r /\ calls[i].pos = p}

\* The handler calls of all runs for the line that starts at p
CallsFor(p) == {i \in DOMAIN calls : calls[i].pos = p}

\* The handler has been called with the event of the line that starts at p.
Delivered(p) ==
    \E i \in CallsFor(p) : calls[i].ev = Loads(LineText(log, p))

\* o is the start of the file or the position right after a newline.
AtBoundary(s, o) == o = 0 \/ (o <= Len(s) /\ s[o] = NL)

\* Every event line now in the file has been passed to the handler.
AllDelivered == \A p \in EventLines(log) : Delivered(p)

\* C1: within one run of the watcher, with whole lines appended while it
\* scans, no line is passed to the handler twice, and every complete event
\* line the offset has moved past in the run was passed exactly once in it.
C1_ExactlyOncePerRun ==
    /\ \A r \in 0..run : \A p \in LineStarts(log) :
           Cardinality(CallsAt(r, p)) <= 1
    /\ Up => \A p \in EventLines(log) :
           (startOff <= p /\ LineEnd(log, p) <= offset)
               => Cardinality(CallsAt(run, p)) = 1

\* C2: every event appended as a whole line is eventually passed to the
\* handler, as long as the watcher's loop keeps taking steps: whatever has been
\* appended, a state follows in which every event line has been delivered
\* (lines keep their place in the file and handler calls are never undone, so
\* this is a delivery of each event line after its append).
C2_EventuallyDelivered == []<>AllDelivered

\* An event appended after the first one has been delivered and the offset
\* past it has been saved.
C2_Witness ==
    \E p \in EventLines(log) :
        p > 0 /\ Delivered(p) /\ stateFile >= LineEnd(log, p)

C4_InLogOrder ==
    \A i, j \in DOMAIN calls :
        (i < j /\ calls[i].run = calls[j].run) => calls[i].pos <= calls[j].pos

\* C5, as claimed: neither the in-memory offset nor the persisted offset ever
\* decreases, over scans, read errors, kills and restarts.
C5_OffsetsNeverDecrease ==
    [][ /\ offset' >= offset
        /\ stateFile' >= 0 => stateFile' >= hiPersist ]_vars

\* C5, amended: the persisted offset never decreases; the in-memory offset
\* never decreases within a run, and a restart sets it to the persisted offset
\* (0 without a state file).
C5_PersistedNeverDecreases ==
    [][ /\ stateFile' >= 0 => stateFile' >= hiPersist
        /\ run' = run => offset' >= offset
        /\ run' # run => offset' = (IF stateFile = NoState THEN 0 ELSE stateFile)
      ]_vars

\* A restarted run that started from a saved offset and saved a higher one.
C5_Witness ==
    run = 1 /\ startOff > 0 /\ stateFile > startOff

\* C6: the in-memory and the persisted offset are 0 or the position right
\* after a newline, never a position in or at the end of a line that is only
\* partly written.
C6_OffsetsAtLineBoundary ==
    /\ Up => AtBoundary(log, offset)
    /\ stateFile >= 0 => AtBoundary(log, stateFile)

\* C7: the handler is only ever given a whole record of the file, and a line
\* that was partly written when the watcher scanned it is passed to the
\* handler once a later append has completed it: no complete event line lies
\* behind the watcher's offset without a handler call.
C7_CompletedLineDelivered ==
    /\ \A i \in DOMAIN calls :
           SubSeq(log, calls[i].pos + 1, calls[i].pos + Len(Dumps(calls[i].ev)))
               = Dumps(calls[i].ev)
    /\ Up => \A p \in EventLines(log) :
           LineEnd(log, p) <= offset => Delivered(p)

\* C8: with a single kill of the watcher no event is passed to the handler
\* more than twice, and an event whose handler call was not covered by a saved
\* offset is passed exactly once by the restarted watcher.
C8_OneRedelivery ==
    crashes <= 1 =>
        /\ \A p \in LineStarts(log) : Cardinality(CallsFor(p)) <= 2
        /\ (run = 1 /\ Up) => \A p \in EventLines(log) :
               (CallsAt(0, p) # {} /\ startOff <= p /\ LineEnd(log, p) <= offset)
                   => Cardinality(CallsAt(1, p)) = 1

\* C9: a run started from a persisted offset calls the handler for no line
\* that starts before that offset.
C9_NoReplayBeforeOffset ==
    \A i \in DOMAIN calls : calls[i].run = run => calls[i].pos >= startOff

\* A restarted run that started behind an event the first run had delivered
\* and that has itself called the handler.
C9_Witness ==
    /\ run = 1
    /\ \E p \in EventLines(log) :
          LineEnd(log, p) <= startOff /\ CallsAt(0, p) # {}
    /\ \E i \in DOMAIN calls : calls[i].run = 1

\* C10: a complete line that does not parse gets no handler call, the event
\* lines after it are each passed exactly once and in order in the run, and
\* the offset that has moved past it is a line boundary.
C10_MalformedSkipped ==
    \A m \in MalformedLines(log) :
        /\ CallsFor(m) = {}
        /\ (Up /\ LineEnd(log, m) <= offset) => AtBoundary(log, offset)
        /\ Up => \A p \in EventLines(log) :
               (m < p /\ startOff <= p /\ LineEnd(log, p) <= offset)
                   => Cardinality(CallsAt(run, p)) = 1
        /\ \A i, j \in DOMAIN calls :
               (i < j /\ calls[i].run = calls[j].run /\ m < calls[j].pos)
                   => calls[i].pos <= calls[j].pos

\* C11: a handler call that ended with a non-zero exit code is the only call of
\* its run for that line, and once the offset of that run has moved past the
\* line it is at or behind the end of the line and every event line between
\* the two has been passed to the handler in the run.
C11_FailedHandlerNotRetried ==
    \A i \in DOMAIN calls :
        calls[i].rc # 0 =>
            /\ Cardinality(CallsAt(calls[i].run, calls[i].pos)) = 1
            /\ (Up /\ calls[i].run = run /\ offset > calls[i].pos) =>
                   /\ offset >= LineEnd(log, calls[i].pos)
                   /\ \A p \in EventLines(log) :
                          (calls[i].pos < p /\ LineEnd(log, p) <= offset)
                              => CallsAt(run, p) # {}

\* ============================================================ the Observer

\* state.setdefault(job_id, JobState()), line 211
SetDefault(j) == IF state[j].known THEN state[j] ELSE JobState

\* An Observer that takes every status response as activity
TrackStatus_Always(js, st) ==
    [js EXCEPT !.last_status = st, !.last_activity = now]

\* Lines 229-234: a status that differs from last_status is recorded and
\* counts as activity.
TrackStatus(js, st) ==
    IF st # NoStatus /\ st # js.last_status
    THEN [js EXCEPT !.last_status = st, !.last_activity = now]
    ELSE js

\* status_payload.get("status"), line 229, for the response to the status
\* request of job j
FetchedStatus(j, hasStatus) == IF hasStatus THEN rstatus[j] ELSE NoStatus

\* An Observer that reports every terminal status as a completion
TerminalKind_Completed(st) == "completed"

\* Line 241: the kind of the event for a terminal status
TerminalKind(st) == IF st = "COMPLETED" THEN "completed" ELSE "error"

\* An Observer that takes whatever the response holds as its cursor
NextCursor_Assign(cur, token) == token

\* Lines 259 and 264-265: cursor = payload.get("next_cursor") and
\* "if cursor: job_state.cursor = cursor"
NextCursor(cur, token) == IF token # NoCursor THEN token ELSE cur

\* An Observer that takes every message it receives as activity
AdvanceCursor_Active(js, batch, token) ==
    [js EXCEPT !.cursor = NextCursor(js.cursor, token),
               !.last_activity = IF batch # <<>> THEN now ELSE @]

\* Lines 259-265: what the visit does to the JobState with the response of
\* the messages endpoint before it looks for a question: the cursor moves,
\* and nothing else changes, whatever the batch holds.
AdvanceCursor(js, batch, token) ==
    [js EXCEPT !.cursor = NextCursor(js.cursor, token)]

\* The response of the messages endpoint to a request with cursor cur: the
\* messages after the cursor, oldest first.
Batch(j, cur) == SubSeq(rmsgs[j], cur + 1, Len(rmsgs[j]))

\* An Observer that reports the newest question of a batch
MessagesActionable_Last(batch, cur) ==
    IF \E i \in DOMAIN batch : batch[i] = "q"
    THEN cur + (CHOOSE i \in DOMAIN batch :
                    /\ batch[i] = "q"
                    /\ \A k \in (i + 1)..Len(batch) : batch[k] # "q")
    ELSE 0

\* messages_actionable: the first message of the batch that matches
\* is_question_message, as its number in the job's messages; 0 for None.
MessagesActionable(batch, cur) ==
    IF \E i \in DOMAIN batch : batch[i] = "q"
    THEN cur + (CHOOSE i \in DOMAIN batch :
                    /\ batch[i] = "q"
                    /\ \A k \in 1..(i - 1) : batch[k] # "q")
    ELSE 0

\* An Observer that reports without taking the report as activity
Touch_Keep(js, t) == js

\* Lines 269 and 293: job_state.last_activity = utc_now(), after the question
\* event and after the stuck event
Touch(js, t) == [js EXCEPT !.last_activity = t]

\* should_emit_stuck, lines 166-178
ShouldEmitStuck(last_activity, threshold) ==
    /\ last_activity # NoActivity
    /\ now - last_activity >= threshold

\* The record of one append_jsonl call: the event, with the cycle it was
\* appended in and the job's cursor in the table at that moment.
Event(kind, j, st, m, text, la, cur) ==
    [kind |-> kind, job_id |-> j, status |-> st, message |-> m, text |-> text,
     last_activity |-> la, observed_at |-> now, cycle |-> cycle, cur |-> cur]

\* The record of one fetch_json call
Fetch(what, j, res, st, cur, token) ==
    [what |-> what, job_id |-> j, res |-> res, status |-> st, cur |-> cur,
     token |-> token, cycle |-> cycle]

\* The for loop of monitor_once goes on to the next entry, or ends.
NextEntry ==
    /\ idx' = idx + 1
    /\ opc' = IF idx < Len(jobs) THEN "poll" ELSE "save"

\* An Observer that drops the jobs it has seen end
ListedJobs_Retire(f) ==
    SelectSeq(f, LAMBDA x : /\ x \in JobIds
                            /\ state[x].last_status \notin ACTIONABLE_STATUSES)

\* The entries of the jobs file f
ListedJobs(f) == SelectSeq(f, LAMBDA x : x \in JobIds)

\* load_jobs, lines 93-100: a content that starts with "[" is handed to
\* json.loads as a whole, which accepts one array and nothing after it; any
\* other content is parsed line by line.
JobsFileParses(f) ==
    IF f = <<>> THEN TRUE
    ELSE IF Head(f) # "[" THEN TRUE
    ELSE /\ f[Len(f)] = "]"
         /\ \A i \in 2..(Len(f) - 1) : f[i] \in JobIds

\* Top of the while loop: load_jobs, and monitor_once when there are jobs.
LoadJobs ==
    /\ opc = "load"
    /\ cycle < MaxCycles
    /\ JobsFileParses(jobsFile)
    /\ cycle' = cycle + 1
    /\ jobs' = ListedJobs(jobsFile)
    /\ IF ListedJobs(jobsFile) = <<>>
       THEN opc' = "save" /\ idx' = 0
       ELSE opc' = "poll" /\ idx' = 1
    /\ UNCHANGED <<jobsFile, rstatus, rmsgs, now, state, mstate, events,
                   fetches, faults>>
    /\ UNCHANGED <<tailVars, mcpVars>>

\* Lines 211-227: the status request is answered with an HTTP error status;
\* fetch_json raises RuntimeError, an error event is appended for the job and
\* the loop goes on with the next entry.
StatusHTTPError ==
    /\ opc = "poll"
    /\ faults < MaxFaults
    /\ faults' = faults + 1
    /\ LET j == jobs[idx]
       IN  /\ state' = [state EXCEPT ![j] = SetDefault(j)]
           /\ fetches' = Append(fetches, Fetch("status", j, "http", NoStatus,
                                               NoCursor, NoCursor))
           /\ events' = Append(events,
                  Event("error", j, NoStatus, 0, "HTTP", NoActivity,
                        SetDefault(j).cursor))
    /\ NextEntry
    /\ UNCHANGED <<jobsFile, rstatus, rmsgs, now, cycle, jobs, mstate>>
    /\ UNCHANGED <<tailVars, mcpVars>>

\* The status request fails without an HTTP status (URLError: no route, refused
\* connection, DNS; a timeout; a body that is not JSON): fetch_json lets the
\* exception pass, it is no RuntimeError, it leaves monitor_once and main's
\* "except Exception" appends an error event without job_id (lines 367-377).
StatusFetchRaises ==
    /\ opc = "poll"
    /\ faults < MaxFaults
    /\ faults' = faults + 1
    /\ LET j == jobs[idx]
       IN  /\ state' = [state EXCEPT ![j] = SetDefault(j)]
           /\ fetches' = Append(fetches, Fetch("status", j, "raise", NoStatus,
                                               NoCursor, NoCursor))
           /\ events' = Append(events,
                  Event("error", NoJob, NoStatus, 0, "Monitor error",
                        NoActivity, NoCursor))
    /\ opc' = "save"
    /\ UNCHANGED <<jobsFile, rstatus, rmsgs, now, cycle, jobs, idx, mstate>>
    /\ UNCHANGED <<tailVars, mcpVars>>

\* Lines 229-248: the fetched status is terminal.
PollTerminal ==
    /\ opc = "poll"
    /\ rstatus[jobs[idx]] \in ACTIONABLE_STATUSES
    /\ LET j  == jobs[idx]
           st == rstatus[j]
           js == TrackStatus(SetDefault(j), st)
       IN  /\ state' = [state EXCEPT ![j] = js]
           /\ fetches' = Append(fetches, Fetch("status", j, "ok", st,
                                               NoCursor, NoCursor))
           /\ events' = Append(events,
                  Event(TerminalKind(st), j, st, 0, "", NoActivity, js.cursor))
    /\ NextEntry
    /\ UNCHANGED <<jobsFile, rstatus, rmsgs, now, cycle, jobs, mstate,
                   faults>>
    /\ UNCHANGED <<tailVars, mcpVars>>

\* Lines 229-234 and 250-293: the fetched status is not terminal; the messages
\* are fetched (res "ok": a response, with or without next_cursor; res "http":
\* RuntimeError, and the payload is {}), the cursor is moved, and a question or
\* a stuck event is appended.  hasStatus is FALSE for a status response without
\* a "status" field: status_payload.get("status") is None, which line 232
\* does not record and which is not in ACTIONABLE_STATUSES.
PollActive(res, withToken, hasStatus) ==
    /\ opc = "poll"
    /\ FetchedStatus(jobs[idx], hasStatus) \notin ACTIONABLE_STATUSES
    /\ res = "http" => ~withToken
    /\ LET bad == (IF res = "ok" THEN 0 ELSE 1) + (IF hasStatus THEN 0 ELSE 1)
       IN  faults + bad <= MaxFaults /\ faults' = faults + bad
    /\ LET j      == jobs[idx]
           st     == FetchedStatus(j, hasStatus)
           js1    == TrackStatus(SetDefault(j), st)
           batch  == IF res = "ok" THEN Batch(j, js1.cursor) ELSE <<>>
           token  == IF res = "ok" /\ withToken THEN Len(rmsgs[j])
                     ELSE NoCursor
           m      == MessagesActionable(batch, js1.cursor)
           js2    == AdvanceCursor(js1, batch, token)
           stuck  == ShouldEmitStuck(js2.last_activity, StuckTicks)
       IN  /\ fetches' = fetches \o
                  << Fetch("status", j, "ok", st, NoCursor, NoCursor),
                     Fetch("messages", j, res, NoStatus, js1.cursor, token) >>
           /\ state' = [state EXCEPT ![j] =
                  IF m # 0 \/ stuck THEN Touch(js2, now) ELSE js2]
           /\ events' =
                  IF m # 0
                  THEN Append(events, Event("question", j, NoStatus, m, "",
                                            NoActivity, js2.cursor))
                  ELSE IF stuck
                  THEN Append(events, Event("stuck", j, NoStatus, 0, "",
                                            js2.last_activity, js2.cursor))
                  ELSE events
    /\ NextEntry
    /\ UNCHANGED <<jobsFile, rstatus, rmsgs, now, cycle, jobs, mstate>>
    /\ UNCHANGED <<tailVars, mcpVars>>

\* The messages request fails without an HTTP status: the exception is no
\* RuntimeError, "except RuntimeError" (line 255) does not catch it and the
\* cycle ends in main's "except Exception" like in StatusFetchRaises, after the
\* status has been recorded.
MessagesFetchRaises ==
    /\ opc = "poll"
    /\ rstatus[jobs[idx]] \notin ACTIONABLE_STATUSES
    /\ faults < MaxFaults
    /\ faults' = faults + 1
    /\ LET j   == jobs[idx]
           st  == rstatus[j]
           js1 == TrackStatus(SetDefault(j), st)
       IN  /\ state' = [state EXCEPT ![j] = js1]
           /\ fetches' = fetches \o
                  << Fetch("status", j, "ok", st, NoCursor, NoCursor),
                     Fetch("messages", j, "raise", NoStatus, js1.cursor,
                           NoCursor) >>
           /\ events' = Append(events,
                  Event("error", NoJob, NoStatus, 0, "Monitor error",
                        NoActivity, NoCursor))
    /\ opc' = "save"
    /\ UNCHANGED <<jobsFile, rstatus, rmsgs, now, cycle, jobs, idx, mstate>>
    /\ UNCHANGED <<tailVars, mcpVars>>

\* A save that leaves the cursors out
DumpTable_NoCursor(tab) ==
    {[job_id |-> j, cursor |-> NoCursor, last_status |-> tab[j].last_status,
      last_activity |-> tab[j].last_activity] : j \in {k \in JobIds : tab[k].known}}

\* Lines 382-389: the JSON object main hands to save_json, one member for every
\* key of the table
DumpTable(tab) ==
    {[job_id |-> j, cursor |-> tab[j].cursor, last_status |-> tab[j].last_status,
      last_activity |-> tab[j].last_activity] : j \in {k \in JobIds : tab[k].known}}

\* Lines 341-348: the table main builds from the object load_json returned
LoadTable(file) ==
    [j \in JobIds |->
        IF \E r \in file : r.job_id = j
        THEN LET r == CHOOSE r \in file : r.job_id = j
             IN  [known |-> TRUE, cursor |-> r.cursor,
                  last_status |-> r.last_status,
                  last_activity |-> r.last_activity]
        ELSE Untracked]

\* save_json, line 70: open(path, "w") cuts the state file to zero length
ObsSaveTruncate ==
    /\ opc = "save"
    /\ mstate' = TornMonitorState
    /\ opc' = "saving"
    /\ UNCHANGED <<jobsFile, rstatus, rmsgs, now, cycle, jobs, idx, state,
                   events, fetches, faults>>
    /\ UNCHANGED <<tailVars, mcpVars>>

\* save_json, lines 71-72: json.dump writes the whole table
ObsSaveWrite ==
    /\ opc = "saving"
    /\ mstate' = [st |-> "ok", tab |-> DumpTable(state)]
    /\ opc' = "sleep"
    /\ UNCHANGED <<jobsFile, rstatus, rmsgs, now, cycle, jobs, idx, state,
                   events, fetches, faults>>
    /\ UNCHANGED <<tailVars, mcpVars>>

\* time.sleep(poll_seconds) ends after d ticks.
ObsWake(d) ==
    /\ opc = "sleep"
    /\ now' = now + d
    /\ opc' = "load"
    /\ UNCHANGED <<jobsFile, rstatus, rmsgs, cycle, jobs, idx, state, mstate,
                   events, fetches, faults>>
    /\ UNCHANGED <<tailVars, mcpVars>>

\* What happens outside the Observer is placed before its start and in its
\* sleeps: the Observer reads the jobs file once per cycle and the remote state
\* of a job once per visit of the job.
Quiet == opc = "sleep" \/ (opc = "load" /\ cycle = 0)

\* The messages the remote service holds, over all jobs
NumMsgs == Len(rmsgs["J1"]) + Len(rmsgs["J2"])

\* jules_register_job (MCP server, lines 213-224) appends an entry for job j
\* to the jobs file.
RegisterJob(j) ==
    /\ Quiet
    /\ Len(ListedJobs(jobsFile)) < Len(JobOrder)
    /\ jobsFile' = Append(jobsFile, j)
    /\ UNCHANGED <<rstatus, rmsgs, now, opc, cycle, jobs, idx, state, mstate,
                   events, fetches, faults>>
    /\ UNCHANGED <<tailVars, mcpVars>>

\* The first registration of a job: the jobs file is a mapping of job ids.
RegisterNewJob(j) ==
    /\ Len(ListedJobs(jobsFile)) < Len(JobOrder)
    /\ j = JobOrder[Len(ListedJobs(jobsFile)) + 1]
    /\ RegisterJob(j)

\* The remote service ends job j with the terminal status st.
RemoteEnds(j, st) ==
    /\ Quiet
    /\ \E i \in DOMAIN jobsFile : jobsFile[i] = j
    /\ rstatus[j] = Running
    /\ rstatus' = [rstatus EXCEPT ![j] = st]
    /\ UNCHANGED <<jobsFile, rmsgs, now, opc, cycle, jobs, idx, state, mstate,
                   events, fetches, faults>>
    /\ UNCHANGED <<tailVars, mcpVars>>

\* The remote job j posts a message of kind k.  The first job of JobOrder is
\* the one that posts messages.
PostMessage(j, k) ==
    /\ Quiet
    /\ j = JobOrder[1]
    /\ \E i \in DOMAIN jobsFile : jobsFile[i] = j
    /\ rstatus[j] = Running
    /\ NumMsgs < MaxMsgs
    /\ rmsgs' = [rmsgs EXCEPT ![j] = Append(@, k)]
    /\ UNCHANGED <<jobsFile, rstatus, now, opc, cycle, jobs, idx, state,
                   mstate, events, fetches, faults>>
    /\ UNCHANGED <<tailVars, mcpVars>>

\* The Observer process is killed, inside a poll cycle or during the sleep
\* after it; its table is lost.
ObsKill ==
    /\ opc \in {"poll", "save", "saving", "sleep"}
    /\ faults < MaxFaults
    /\ faults' = faults + 1
    /\ opc' = "down"
    /\ state' = NoTable
    /\ jobs' = <<>>
    /\ idx' = 0
    /\ UNCHANGED <<jobsFile, rstatus, rmsgs, now, cycle, mstate, events,
                   fetches>>
    /\ UNCHANGED <<tailVars, mcpVars>>

\* The Observer is started again, lines 340-348: load_json gives {} without a
\* state file and raises on a state file of zero length, which ends the
\* process before its loop.
ObsRestart ==
    /\ opc = "down"
    /\ IF mstate.st = "torn"
       THEN opc' = "failed" /\ state' = state
       ELSE opc' = "load" /\ state' = LoadTable(mstate.tab)
    /\ UNCHANGED <<jobsFile, rstatus, rmsgs, now, cycle, jobs, idx, mstate,
                   events, fetches, faults>>
    /\ UNCHANGED <<tailVars, mcpVars>>

NextObs ==
    \/ LoadJobs
    \/ StatusHTTPError
    \/ StatusFetchRaises
    \/ PollTerminal
    \/ \E res \in {"ok", "http"} : \E withToken, hasStatus \in BOOLEAN :
           PollActive(res, withToken, hasStatus)
    \/ MessagesFetchRaises
    \/ ObsSaveTruncate
    \/ ObsSaveWrite
    \/ \E d \in Sleeps : ObsWake(d)
    \/ \E j \in JobIds : RegisterNewJob(j)
    \/ \E j \in JobIds : \E st \in Endings : RemoteEnds(j, st)
    \/ \E j \in JobIds : \E k \in MsgKinds : PostMessage(j, k)
    \/ ObsKill
    \/ ObsRestart

\* The Observer with a jobs file that lists every job once, remote calls that
\* fail, kills and restarts from the monitor state file.
SpecObs == Init /\ [][NextObs]_vars

\* ------------------------------------------- a job registered a second time

\* jules_register_job is called for a job that the jobs file already lists:
\* the call appends a second entry with the same job_id.
RegisterAgain(j) ==
    /\ \E i \in DOMAIN jobsFile : jobsFile[i] = j
    /\ RegisterJob(j)

NextObsDup ==
    \/ NextObs
    \/ \E j \in JobIds : RegisterAgain(j)

\* SpecObs, and jobs files in which a job_id appears more than once.
SpecObsDup == Init /\ [][NextObsDup]_vars

\* ------------------------------------------- a jobs file with a JSON array

\* The jobs file is supplied as a single JSON array with the first job.
ArrayJobsFile ==
    /\ opc = "load" /\ cycle = 0
    /\ jobsFile = <<>>
    /\ jobsFile' = <<"[", JobOrder[1], "]">>
    /\ UNCHANGED <<rstatus, rmsgs, now, opc, cycle, jobs, idx, state, mstate,
                   events, fetches, faults>>
    /\ UNCHANGED <<tailVars, mcpVars>>

\* load_jobs raises json.JSONDecodeError ("Extra data") on a jobs file that
\* starts with "[" and goes on after the array: main's "except Exception"
\* appends an error event without job_id, lines 367-377, and no job is polled.
LoadJobsMalformed ==
    /\ opc = "load"
    /\ cycle < MaxCycles
    /\ ~JobsFileParses(jobsFile)
    /\ cycle' = cycle + 1
    /\ jobs' = <<>>
    /\ idx' = 0
    /\ fetches' = Append(fetches,
           [Fetch("jobs", NoJob, "raise", NoStatus, NoCursor, NoCursor)
               EXCEPT !.cycle = cycle + 1])
    /\ events' = Append(events,
           [Event("error", NoJob, NoStatus, 0, "Monitor error", NoActivity,
                  NoCursor) EXCEPT !.cycle = cycle + 1])
    /\ opc' = "save"
    /\ UNCHANGED <<jobsFile, rstatus, rmsgs, now, state, mstate, faults>>
    /\ UNCHANGED <<tailVars, mcpVars>>

NextObsArray ==
    \/ NextObs
    \/ ArrayJobsFile
    \/ LoadJobsMalformed

\* SpecObs, and a jobs file that was supplied as a JSON array.
SpecObsArray == Init /\ [][NextObsArray]_vars

\* --------------------------------------------- file operations that fail

\* load_jobs raises (the jobs file cannot be opened or read, or its content
\* is not JSON): main's "except Exception" appends an error event without
\* job_id, lines 367-377.
LoadJobsRaises ==
    /\ opc = "load"
    /\ cycle < MaxCycles
    /\ faults < MaxFaults
    /\ faults' = faults + 1
    /\ cycle' = cycle + 1
    /\ jobs' = <<>>
    /\ idx' = 0
    /\ fetches' = Append(fetches,
           [Fetch("jobs", NoJob, "raise", NoStatus, NoCursor, NoCursor)
               EXCEPT !.cycle = cycle + 1])
    /\ events' = Append(events,
           [Event("error", NoJob, NoStatus, 0, "Monitor error", NoActivity,
                  NoCursor) EXCEPT !.cycle = cycle + 1])
    /\ opc' = "save"
    /\ UNCHANGED <<jobsFile, rstatus, rmsgs, now, state, mstate>>
    /\ UNCHANGED <<tailVars, mcpVars>>

\* append_jsonl raises OSError (the disk is full, the events file cannot be
\* opened) for the event of a terminal status, line 238.  The exception leaves
\* monitor_once; the append_jsonl call of main's except branch, line 369,
\* writes to the same file: it succeeds, or it raises as well and the
\* exception ends the process.
AppendRaises(again) ==
    /\ opc = "poll"
    /\ rstatus[jobs[idx]] \in ACTIONABLE_STATUSES
    /\ faults < MaxFaults
    /\ faults' = faults + 1
    /\ LET j  == jobs[idx]
           st == rstatus[j]
       IN  /\ state' = [state EXCEPT ![j] = TrackStatus(SetDefault(j), st)]
           /\ fetches' = Append(fetches, Fetch("status", j, "ok", st,
                                               NoCursor, NoCursor))
    /\ IF again
       THEN opc' = "crashed" /\ events' = events
       ELSE /\ opc' = "save"
            /\ events' = Append(events,
                   Event("error", NoJob, NoStatus, 0, "Monitor error",
                         NoActivity, NoCursor))
    /\ UNCHANGED <<jobsFile, rstatus, rmsgs, now, cycle, jobs, idx, mstate>>
    /\ UNCHANGED <<tailVars, mcpVars>>

\* save_json raises OSError in open (line 70) or in json.dump (line 71).  The
\* call is outside the try statement of the loop, lines 379-390: the exception
\* ends the process.
SaveRaises ==
    /\ opc \in {"save", "saving"}
    /\ faults < MaxFaults
    /\ faults' = faults + 1
    /\ opc' = "crashed"
    /\ UNCHANGED <<jobsFile, rstatus, rmsgs, now, cycle, jobs, idx, state,
                   mstate, events, fetches>>
    /\ UNCHANGED <<tailVars, mcpVars>>

NextObsIO ==
    \/ NextObs
    \/ LoadJobsRaises
    \/ \E again \in BOOLEAN : AppendRaises(again)
    \/ SaveRaises

\* SpecObs, and file operations of the Observer that fail.
SpecObsIO == Init /\ [][NextObsIO]_vars

\* ------------------------------------------------ properties of the Observer

\* The events appended in cycle c for job j
EventsOf(c, j) ==
    {i \in DOMAIN events : events[i].cycle = c /\ events[i].job_id = j}

\* The fetch_json calls of cycle c for job j and endpoint what
FetchesOf(c, j, what) ==
    {i \in DOMAIN fetches : /\ fetches[i].cycle = c
                            /\ fetches[i].job_id = j
                            /\ fetches[i].what = what}

\* The status fetches that returned a terminal status
TerminalFetches ==
    {i \in DOMAIN fetches : /\ fetches[i].what = "status"
                            /\ fetches[i].res = "ok"
                            /\ fetches[i].status \in ACTIONABLE_STATUSES}

\* The status fetches that failed, with or without an HTTP status
FailedStatusFetches ==
    {i \in DOMAIN fetches : /\ fetches[i].what = "status"
                            /\ fetches[i].res # "ok"}

\* The fetch_json calls this step has made
NewFetches == {i \in DOMAIN fetches' : i > Len(fetches)}

\* This step belongs to the visit of job j by monitor_once.
Visits(j) == \E i \in NewFetches : fetches'[i].job_id = j

\* C12: a job and a terminal status have at most one completed or error event
\* in the whole Event Log, however many cycles observe that status.
C12_OneTerminalEvent ==
    \A i, k \in DOMAIN events :
        ( /\ i < k
          /\ events[i].status \in ACTIONABLE_STATUSES
          /\ events[i].job_id = events[k].job_id
          /\ events[i].status = events[k].status ) => FALSE

\* C13, the events of the cycle: a cycle in which the status fetch of a job
\* returned a terminal status has exactly one event for the job, completed for
\* COMPLETED and error otherwise, with that status, and no messages fetch for
\* the job.
C13_TerminalCycle ==
    \A f \in TerminalFetches :
        LET c == fetches[f].cycle
            j == fetches[f].job_id
        IN  /\ FetchesOf(c, j, "messages") = {}
            /\ \E i \in DOMAIN events :
                  /\ EventsOf(c, j) = {i}
                  /\ events[i].status = fetches[f].status
                  /\ events[i].kind = "completed"
                         <=> fetches[f].status = "COMPLETED"
                  /\ events[i].kind \in {"completed", "error"}

\* C13, the step: the visit that fetched the terminal status appends one record
\* and leaves the job's cursor as it was.
C13_TerminalStep ==
    \A f \in NewFetches :
        (fetches'[f].res = "ok" /\ fetches'[f].status \in ACTIONABLE_STATUSES)
            => /\ Len(events') = Len(events) + 1
               /\ state'[fetches'[f].job_id].cursor
                      = state[fetches'[f].job_id].cursor

C14_StuckDebounced ==
    \A i, k \in DOMAIN events :
        ( /\ i < k
          /\ events[i].kind = "stuck"
          /\ events[k].kind = "stuck"
          /\ events[i].job_id = events[k].job_id )
            => events[k].observed_at >= events[i].observed_at + StuckTicks

\* C15, the events of the cycle: a cycle in which the status fetch of a job
\* failed has exactly one event for the job, an error event that carries the
\* failure message, and no messages fetch for the job.
C15_FailedCycle ==
    \A f \in FailedStatusFetches :
        LET c == fetches[f].cycle
            j == fetches[f].job_id
        IN  /\ FetchesOf(c, j, "messages") = {}
            /\ \E i \in DOMAIN events :
                  /\ EventsOf(c, j) = {i}
                  /\ events[i].kind = "error"
                  /\ events[i].text # ""

\* C15, the step: the visit whose status fetch failed leaves cursor,
\* last_status and last_activity of the job as they were.
C15_FailedStep ==
    \A f \in NewFetches :
        (fetches'[f].what = "status" /\ fetches'[f].res # "ok")
            => LET j == fetches'[f].job_id
               IN  /\ state'[j].cursor = state[j].cursor
                   /\ state'[j].last_status = state[j].last_status
                   /\ state'[j].last_activity = state[j].last_activity

\* C15: a failed status fetch gives exactly one error event for the job, with
\* the failure message, and nothing else happens for the job in the cycle.
C15_StatusFailureOneError == []C15_FailedCycle /\ [][C15_FailedStep]_vars

\* C16: once monitor_once is over for the cycle, every job of the list that
\* comes after a job with a failed fetch has had its status fetched in the
\* cycle.
C16_FailureDoesNotBlock ==
    opc \in {"save", "saving", "sleep"} =>
        \A a, b \in DOMAIN jobs :
            ( /\ a < b
              /\ \E f \in DOMAIN fetches : /\ fetches[f].cycle = cycle
                                           /\ fetches[f].job_id = jobs[a]
                                           /\ fetches[f].res # "ok" )
                => FetchesOf(cycle, jobs[b], "status") # {}

\* C17: no failure ends the Observer's loop, and a cycle in which load_jobs or
\* monitor_once raised has an error event without job_id.
C17_LoopSurvivesFailures ==
    /\ opc # "crashed"
    /\ \A f \in DOMAIN fetches :
           fetches[f].res = "raise" => EventsOf(fetches[f].cycle, NoJob) # {}

\* C18: no observed condition is reported twice: two stuck events of a job
\* never report the same idle period (the same last_activity), and a question
\* message that the cursor of its job had moved past when it was reported is
\* not reported a second time.
C18_NoDuplicateAfterKill ==
    \A i, k \in DOMAIN events :
        (i < k /\ events[i].job_id = events[k].job_id) =>
            /\ (events[i].kind = "stuck" /\ events[k].kind = "stuck")
                   => events[i].last_activity # events[k].last_activity
            /\ ( /\ events[i].kind = "question"
                 /\ events[k].kind = "question"
                 /\ events[i].cur >= events[i].message )
                   => events[i].message # events[k].message

\* C19: no cycle has two events for one job_id.
C19_OneEventPerJobPerCycle ==
    \A c \in 1..cycle : \A j \in JobIds : Cardinality(EventsOf(c, j)) <= 1

\* C20, the step: the messages fetch of a visit sets the job's cursor to the
\* continuation token when the fetch succeeded and returned one, and leaves it
\* as it was otherwise; no visit of a job lowers its cursor.
C20_CursorStep ==
    \A f \in NewFetches :
        LET j == fetches'[f].job_id
        IN  /\ state'[j].cursor >= state[j].cursor
            /\ fetches'[f].what = "messages" =>
                   state'[j].cursor =
                       IF fetches'[f].res = "ok" /\ fetches'[f].token # NoCursor
                       THEN fetches'[f].token
                       ELSE state[j].cursor

\* C20: after a messages fetch that returned a continuation token the cursor is
\* that token, with or without a question in the batch; without a token, or
\* when the fetch failed, the cursor keeps its value.
C20_CursorFollowsToken == [][C20_CursorStep]_vars

\* A batch without a question came with a token, which is now the cursor, and
\* a later fetch from that cursor came without a token.
C20_Witness ==
    \E f, g \in DOMAIN fetches :
        /\ f < g
        /\ fetches[f].what = "messages" /\ fetches[g].what = "messages"
        /\ fetches[f].job_id = fetches[g].job_id
        /\ fetches[f].res = "ok" /\ fetches[f].token # NoCursor
        /\ EventsOf(fetches[f].cycle, fetches[f].job_id) = {}
        /\ fetches[g].cur = fetches[f].token
        /\ fetches[g].token = NoCursor
        /\ state[fetches[g].job_id].cursor = fetches[f].token

\* The questions among the messages of job j after cursor cur, by number
QuestionsAfter(j, cur) ==
    {i \in DOMAIN rmsgs[j] : i > cur /\ rmsgs[j][i] = "q"}

\* The messages fetches of this step that returned a batch with a question
QuestionFetches ==
    {f \in NewFetches : /\ fetches'[f].what = "messages"
                        /\ fetches'[f].res = "ok"
                        /\ QuestionsAfter(fetches'[f].job_id,
                                          fetches'[f].cur) # {}}

\* C21, the step: a visit whose batch holds a question appends one event, a
\* question event for the job with the first question of the batch, and sets
\* the job's last_activity to the current time.
C21_QuestionStep ==
    \A f \in QuestionFetches :
        LET j  == fetches'[f].job_id
            qs == QuestionsAfter(j, fetches'[f].cur)
        IN  /\ Len(events') = Len(events) + 1
            /\ events'[Len(events')].kind = "question"
            /\ events'[Len(events')].job_id = j
            /\ events'[Len(events')].cycle = cycle
            /\ events'[Len(events')].message \in qs
            /\ \A i \in qs : events'[Len(events')].message <= i
            /\ state'[j].last_activity = now

\* C21, the cycle: a question event is the only event of its cycle for its
\* job; no stuck event comes with it.
C21_QuestionCycle ==
    \A i \in DOMAIN events :
        events[i].kind = "question" =>
            EventsOf(events[i].cycle, events[i].job_id) = {i}

FailedMessagesFetches ==
    {i \in DOMAIN fetches : /\ fetches[i].what = "messages"
                            /\ fetches[i].res # "ok"}

\* C22, the step: a visit whose messages fetch failed appends no event other
\* than the stuck event the job's inactivity calls for, and leaves the job's
\* cursor as it was.
C22_FailedMessagesStep ==
    \A f \in NewFetches :
        (fetches'[f].what = "messages" /\ fetches'[f].res # "ok") =>
            LET j == fetches'[f].job_id
            IN  /\ state'[j].cursor = fetches'[f].cur
                /\ \A i \in DOMAIN events' :
                       i > Len(events) =>
                           events'[i].kind = "stuck" /\ events'[i].job_id = j

\* C22, the retry: the messages fetch that follows a failed one for the same
\* job asks from the same cursor.
C22_FailedMessagesRetry ==
    \A f \in FailedMessagesFetches : \A g \in DOMAIN fetches :
        ( /\ g > f
          /\ fetches[g].what = "messages"
          /\ fetches[g].job_id = fetches[f].job_id
          /\ \A h \in (f + 1)..(g - 1) :
                 ~(fetches[h].what = "messages"
                   /\ fetches[h].job_id = fetches[f].job_id) )
        => fetches[g].cur = fetches[f].cur

\* C22: a failed messages fetch appends no event of its own, the job is not
\* reported as an error, the cursor is unchanged and the next cycle fetches
\* from the same cursor.
C22_MessagesFailureSilent ==
    []C22_FailedMessagesRetry /\ [][C22_FailedMessagesStep]_vars

\* s is the beginning of t.
IsPrefix(s, t) == Len(s) <= Len(t) /\ SubSeq(t, 1, Len(s)) = s

\* C23, the step: what the events file held stays at its place, and a step
\* that changes the file adds to its end, the last thing added being a whole
\* record and its newline.
C23_AppendOnlyStep ==
    /\ IsPrefix(log, log')
    /\ log' # log =>
           /\ Len(log') >= Len(log) + RecLen
           /\ \E p \in Payloads :
                  SubSeq(log', Len(log') - RecLen + 1, Len(log')) =
                      Dumps(p) \o <<NL>>

SameTable(file, tab) ==
    /\ \A r \in file :
           /\ tab[r.job_id].known
           /\ r.cursor = tab[r.job_id].cursor
           /\ r.last_status = tab[r.job_id].last_status
           /\ r.last_activity = tab[r.job_id].last_activity
    /\ \A j \in JobIds : tab[j].known => \E r \in file : r.job_id = j

\* C24, the end of a cycle: while the Observer sleeps after a cycle, failed or
\* not, the state file holds its whole table.
C24_SavedAtCycleEnd ==
    opc = "sleep" => mstate.st = "ok" /\ SameTable(mstate.tab, state)

\* C24, the restart: an Observer that starts from a state file has the table
\* of that file.
C24_RestartStep ==
    (opc = "down" /\ opc' = "load") =>
        /\ mstate.st \in {"ok", "none"}
        /\ SameTable(mstate.tab, state')

\* C24: at the end of every poll cycle, one that failed with an exception
\* included, the persisted MonitorState equals the whole in-memory table, and
\* an Observer restarted from it resumes with exactly that table.
C24_MonitorStateRoundTrip ==
    []C24_SavedAtCycleEnd /\ [][C24_RestartStep]_vars

\* An Observer that was killed in its sleep, after a cycle that moved a cursor
\* and reported a question, has been restarted and has the moved cursor.
C24_Witness ==
    /\ opc = "load" /\ jobs = <<>>
    /\ \E f \in DOMAIN fetches : \E i \in DOMAIN events :
           /\ state[fetches[f].job_id].last_activity = now
           /\ fetches[f].cycle = cycle
           /\ fetches[f].what = "messages" /\ fetches[f].res = "ok"
           /\ fetches[f].token # NoCursor
           /\ fetches[f].token # fetches[f].cur
           /\ state[fetches[f].job_id].cursor = fetches[f].token
           /\ state[fetches[f].job_id].last_status = Running
           /\ events[i].cycle = cycle /\ events[i].kind = "question"

\* The Observer is at the end of its cycle, before the sleep in which the next
\* registrations come, and the cycle went through the whole job list: no
\* fetch of it ended in an exception without an HTTP status.
SweptWholeList ==
    /\ opc \in {"save", "saving"}
    /\ \A f \in DOMAIN fetches :
           (fetches[f].cycle = cycle /\ fetches[f].what \in {"status", "messages"})
               => fetches[f].res # "raise"

\* C25: a job that a registration call has added to the jobs file is tracked
\* from the next poll cycle on, whether the file was supplied as one array or
\* as one record per line: in every cycle that went through its job list each
\* job of the file, registered or listed before, has a JobState and has had
\* its status requested.
C25_RegisteredJobTracked ==
    SweptWholeList =>
        \A k \in DOMAIN jobsFile :
            jobsFile[k] \in JobIds =>
                /\ state[jobsFile[k]].known
                /\ FetchesOf(cycle, jobsFile[k], "status") # {}

\* The status fetches of this step that returned a status that is not terminal
ActiveFetches ==
    {f \in NewFetches : /\ fetches'[f].what = "status"
                        /\ fetches'[f].res = "ok"
                        /\ fetches'[f].status \notin ACTIONABLE_STATUSES}

\* This step appends an event of kind k for job j.
Appends(k, j) ==
    \E i \in DOMAIN events' :
        i > Len(events) /\ events'[i].kind = k /\ events'[i].job_id = j

\* C26, the step: in a visit with a status that is not terminal and without a
\* question, a stuck event is appended for the job exactly when the job has a
\* last_activity (the one of the table, or the current time when this visit
\* saw the status change) that lies the threshold or more behind the current
\* time, and then last_activity becomes the current time.
C26_StuckStep ==
    \A f \in ActiveFetches :
        LET j  == fetches'[f].job_id
            st == fetches'[f].status
            la == IF st # NoStatus /\ st # state[j].last_status THEN now
                  ELSE state[j].last_activity
        IN  ~Appends("question", j) =>
                /\ Appends("stuck", j) <=>
                       (la # NoActivity /\ now - la >= StuckTicks)
                /\ Appends("stuck", j) => state'[j].last_activity = now
                /\ ~Appends("stuck", j) => state'[j].last_activity = la

\* C26: where the status fetch gave a status that is not terminal and no
\* question was found, a stuck event is appended if and only if
\* now - last_activity >= stuck_threshold, last_activity is reset to now on
\* emission, and a job without last_activity is never reported stuck.
C26_StuckIffThreshold == [][C26_StuckStep]_vars

\* The events of job j that report a terminal status
TerminalEventsOf(j) ==
    {i \in DOMAIN events : /\ events[i].job_id = j
                           /\ events[i].kind \in {"completed", "error"}
                           /\ events[i].status \in ACTIONABLE_STATUSES}

\* C27, the events: a job has as many terminal events as status fetches that
\* returned a terminal status, one in each cycle with such a fetch.
C27_ReportedEveryCycle ==
    \A j \in JobIds :
        /\ Cardinality(TerminalEventsOf(j)) =
               Cardinality({f \in TerminalFetches : fetches[f].job_id = j})
        /\ \A f \in TerminalFetches :
               fetches[f].job_id = j =>
                   \E i \in TerminalEventsOf(j) :
                       events[i].cycle = fetches[f].cycle

\* C27, the list: a job that was seen with a terminal status in an earlier
\* cycle is polled again in every cycle that goes through the job list.
C27_NeverRetired ==
    ( /\ opc \in {"save", "saving"}
      /\ \A g \in DOMAIN fetches :
             fetches[g].cycle = cycle => fetches[g].res # "raise" )
    => \A f \in TerminalFetches :
           fetches[f].cycle < cycle =>
               FetchesOf(cycle, fetches[f].job_id, "status") # {}

\* C27: a job with a terminal remote status that remains in the job list has
\* one terminal event appended in every poll cycle in which its status fetch
\* succeeds; the Observer never retires the job on its own.
C27_TerminalEveryCycle == C27_ReportedEveryCycle /\ C27_NeverRetired

\* A job has been reported with the same terminal status in three cycles.
C27_Witness ==
    \E j \in JobIds : \E st \in ACTIONABLE_STATUSES :
        /\ \A c \in 1..3 :
               \E i \in TerminalEventsOf(j) :
                   events[i].cycle = c /\ events[i].status = st
        /\ Cardinality(TerminalEventsOf(j)) = 3
        /\ opc = "save"

\* The status fetches of this step that were answered
AnsweredFetches ==
    {f \in NewFetches : fetches'[f].what = "status" /\ fetches'[f].res = "ok"}

\* The visit of job j in this step ends with last_activity la as far as the
\* status step goes: the table holds la unless a question or a stuck event of
\* the same visit has set it to the current time, and a stuck event carries
\* la.
ActivityAfterStatus(j, la) ==
    /\ ~(Appends("question", j) \/ Appends("stuck", j))
           => state'[j].last_activity = la
    /\ \A i \in DOMAIN events' :
           (i > Len(events) /\ events'[i].kind = "stuck")
               => events'[i].last_activity = la

\* C28 as stated, the step: after an answered status fetch last_status is the
\* fetched status, and last_activity is the current time exactly when the
\* fetched status differs from the last_status before.
C28_StatusStepAsStated ==
    \A f \in AnsweredFetches :
        LET j  == fetches'[f].job_id
            st == fetches'[f].status
        IN  /\ state'[j].last_status = st
            /\ ActivityAfterStatus(j,
                   IF st # state[j].last_status THEN now
                   ELSE state[j].last_activity)

\* C28 as stated: after any cycle in which the status fetch of a job succeeds,
\* last_status equals the fetched status, and last_activity is set to now by
\* this step exactly when the fetched status differs from the previous
\* last_status.
C28_StatusTrackedAsStated == [][C28_StatusStepAsStated]_vars

\* C28 amended, the step: a fetched status that is not empty becomes
\* last_status, with last_activity set to the current time exactly when it
\* differs from the last_status before; a response without a status leaves
\* last_status and last_activity as they were.
C28_StatusStep ==
    \A f \in AnsweredFetches :
        LET j  == fetches'[f].job_id
            st == fetches'[f].status
        IN  IF st # NoStatus
            THEN /\ state'[j].last_status = st
                 /\ ActivityAfterStatus(j,
                        IF st # state[j].last_status THEN now
                        ELSE state[j].last_activity)
            ELSE /\ state'[j].last_status = state[j].last_status
                 /\ ActivityAfterStatus(j, state[j].last_activity)

\* C28 amended: after a status fetch that returned a non-empty status,
\* last_status equals that status and last_activity is set to now by this
\* step exactly when the status differs from the previous last_status; a
\* status response without a status changes neither.
C28_StatusTracked == [][C28_StatusStep]_vars

\* A job whose status RUNNING was recorded has had a status response without
\* a status, and its last_status is still RUNNING.
C28_Witness ==
    \E f, g \in DOMAIN fetches :
        LET j == fetches[g].job_id
        IN  /\ f < g
            /\ fetches[f].what = "status" /\ fetches[g].what = "status"
            /\ fetches[f].job_id = j
            /\ fetches[f].res = "ok" /\ fetches[g].res = "ok"
            /\ fetches[f].status = Running
            /\ fetches[g].status = NoStatus
            /\ fetches[g].cycle = cycle
            /\ opc = "save"
            /\ state[j].last_status = Running
            /\ state[j].last_activity < now

\* The questions of the batch the messages fetch f returned, by number: the
\* batch goes from the cursor of the request to the continuation token.
QuestionsOfBatch(f) ==
    {m \in (fetches[f].cur + 1)..fetches[f].token :
        rmsgs[fetches[f].job_id][m] = "q"}

\* The messages fetches that returned a continuation token and a batch with
\* more than one question
ManyQuestionFetches ==
    {f \in DOMAIN fetches : /\ fetches[f].what = "messages"
                            /\ fetches[f].res = "ok"
                            /\ fetches[f].token # NoCursor
                            /\ Cardinality(QuestionsOfBatch(f)) > 1}

\* C29, the events: of a batch with more than one question and a token, the
\* cycle of the fetch reports the first question, and no question event of
\* that cycle or of a later one carries another question of the batch.
C29_OnlyFirstReported ==
    \A f \in ManyQuestionFetches :
        LET j == fetches[f].job_id
            qs == QuestionsOfBatch(f)
        IN  /\ \E i \in EventsOf(fetches[f].cycle, j) :
                   /\ events[i].kind = "question"
                   /\ events[i].message \in qs
                   /\ \A m \in qs : events[i].message <= m
            /\ \A i \in DOMAIN events :
                   ( /\ events[i].kind = "question"
                     /\ events[i].job_id = j
                     /\ events[i].cycle >= fetches[f].cycle
                     /\ events[i].message \in qs )
                   => \A m \in qs : events[i].message <= m

\* C29, the step: the visit that fetched such a batch leaves the cursor at the
\* token, behind every message of the batch.
C29_CursorPastBatch ==
    \A f \in NewFetches :
        ( /\ fetches'[f].what = "messages"
          /\ fetches'[f].res = "ok"
          /\ fetches'[f].token # NoCursor
          /\ Cardinality(QuestionsAfter(fetches'[f].job_id,
                                        fetches'[f].cur)) > 1 )
        => /\ state'[fetches'[f].job_id].cursor = fetches'[f].token
           /\ \A m \in QuestionsAfter(fetches'[f].job_id, fetches'[f].cur) :
                  m <= state'[fetches'[f].job_id].cursor

\* C29: a batch with more than one matching message and a continuation token
\* has its first match reported only; the cursor advances past the whole
\* batch and the other matches never produce a question event in a later
\* cycle.
C29_LaterQuestionsDropped ==
    []C29_OnlyFirstReported /\ [][C29_CursorPastBatch]_vars

\* Two questions came in one batch with a token; a later cycle has fetched
\* from that token and reported nothing, and the only question event of the
\* job is the one for the first question.
C29_Witness ==
    \E f \in ManyQuestionFetches : \E g \in DOMAIN fetches :
        LET j == fetches[f].job_id
        IN  /\ fetches[g].what = "messages" /\ fetches[g].job_id = j
            /\ fetches[g].res = "ok"
            /\ fetches[g].cycle > fetches[f].cycle
            /\ fetches[g].cur = fetches[f].token
            /\ EventsOf(fetches[g].cycle, j) = {}
            /\ opc = "sleep"
            /\ \A i \in DOMAIN events :
                   (events[i].kind = "question" /\ events[i].job_id = j)
                       => events[i].message = 1
            /\ \E i \in DOMAIN events :
                   events[i].kind = "question" /\ events[i].job_id = j

\* C30, the step: the read of a line that is no event record makes no handler
\* call and leaves the watcher in its loop, at the line that follows.
C30_SkipStep ==
    ( /\ pc = "reading"
      /\ rpos' > rpos
      /\ ~Parseable(SubSeq(log, rpos + 1, rpos')) )
    => /\ pc' = "reading"
       /\ calls' = calls

\* C30: no content of a line of the events file ends the watcher's loop.  A
\* line that cannot be handled as an event record, text that does not parse
\* or text that parses to a bare number, string or array, is skipped and the
\* watcher goes on.
C30_NoLineEndsLoop == [](pc # "raised") /\ [][C30_SkipStep]_vars

\* The messages fetches of this step that returned new messages, none of them
\* a question
PlainBatchFetches ==
    {f \in NewFetches :
        LET j == fetches'[f].job_id
        IN  /\ fetches'[f].what = "messages"
            /\ fetches'[f].res = "ok"
            /\ Len(rmsgs[j]) > fetches'[f].cur
            /\ QuestionsAfter(j, fetches'[f].cur) = {}}

\* C31, the step: a visit that received new messages without a question moves
\* the cursor to the token, appends no question event, and treats the job's
\* last_activity as if no message had come: a stuck event exactly when the
\* last_activity the status step left lies the threshold or more behind, and
\* otherwise that last_activity stays.
C31_PlainBatchStep ==
    \A f \in PlainBatchFetches : \A g \in AnsweredFetches :
        LET j  == fetches'[f].job_id
            st == fetches'[g].status
            la == IF st # NoStatus /\ st # state[j].last_status THEN now
                  ELSE state[j].last_activity
        IN  fetches'[g].job_id = j =>
                /\ fetches'[f].token # NoCursor =>
                       /\ state'[j].cursor = fetches'[f].token
                       /\ state'[j].cursor > state[j].cursor
                /\ ~Appends("question", j)
                /\ Appends("stuck", j) <=>
                       (la # NoActivity /\ now - la >= StuckTicks)
                /\ ~Appends("stuck", j) => state'[j].last_activity = la
                /\ \A i \in DOMAIN events' :
                       (i > Len(events) /\ events'[i].kind = "stuck")
                           => events'[i].last_activity = la

\* C31: new messages that do not match the question predicate leave
\* last_activity unchanged although the cursor advances; a job with an
\* unchanged status that is not terminal is reported stuck once the threshold
\* has elapsed since its last status change, question or stuck event, even if
\* such messages kept arriving in between.
C31_PlainMessagesNoActivity == [][C31_PlainBatchStep]_vars

\* A job whose status was recorded at tick 1 received a plain message in its
\* first cycle and another one later, both passed by the cursor, and was
\* reported stuck in the cycle of the second one with the last_activity of
\* tick 1.
C31_Witness ==
    \E i \in DOMAIN events : \E f, g \in DOMAIN fetches :
        LET j == events[i].job_id
        IN  /\ events[i].kind = "stuck"
            /\ events[i].last_activity = 1
            /\ events[i].observed_at >= 1 + StuckTicks
            /\ rmsgs[j] = <<"n", "n">>
            /\ fetches[f].what = "messages" /\ fetches[f].job_id = j
            /\ fetches[f].res = "ok"
            /\ fetches[f].cur = 0 /\ fetches[f].token = 1
            /\ fetches[f].cycle < events[i].cycle
            /\ fetches[g].what = "messages" /\ fetches[g].job_id = j
            /\ fetches[g].res = "ok"
            /\ fetches[g].cur = 1 /\ fetches[g].token = 2
            /\ fetches[g].cycle = events[i].cycle
            /\ state[j].cursor = 2
            /\ state[j].last_activity = events[i].observed_at

\* The responses written while the server handled input line n
ResponsesTo(n) == {i \in DOMAIN stdout : stdout[i].line = n}

\* C32: every input line that is not empty has exactly one response line,
\* which carries the id of the request on that line, and a null id when the
\* line is no parseable request object, never the id of an earlier request;
\* the server goes on to the next line.
C32_OneResponseOwnId ==
    /\ mpc # "raised"
    /\ \A n \in DOMAIN stdinRead :
           IF stdinRead[n].kind = "blank"
           THEN ResponsesTo(n) = {}
           ELSE \E i \in DOMAIN stdout :
                    /\ ResponsesTo(n) = {i}
                    /\ stdout[i].id = IF stdinRead[n].kind = "object"
                                      THEN stdinRead[n].id
                                      ELSE NoId

====
